---- MODULE Spec2Model ----
(***************************************************************************)
(* A model of the Facebook Graph API client                                *)
(* (src/facebook_action/modules/facebook_api.py, class FacebookAPI).       *)
(*                                                                         *)
(* Python values are modelled as follows.                                  *)
(*   - a dict is a function whose domain is its set of keys;               *)
(*   - a list is a sequence;                                               *)
(*   - a str is a string (concatenation and f-strings are \o);            *)
(*   - a position that holds values of several Python types (Optional,     *)
(*     Union) holds a tagged record: PyNone, PyStr(s), PyDict(d),          *)
(*     PyList(l).                                                          *)
(* The client keeps no state between calls: the state of the model is the  *)
(* configuration of the instance, the position of the one call in progress *)
(* with its local variables, and the HTTP traffic of that call.            *)
(***************************************************************************)
EXTENDS Integers, Sequences, FiniteSets, TLC

VARIABLES
    self,        \* the instance's configuration (__init__)
    pc,          \* "idle", the name of the multi-request call in progress, or "done"
    call,        \* the call in progress or just finished: its name and arguments
    all_pages,   \* list_all_pages: the records accumulated so far
    endpoint,    \* list_all_pages: the endpoint of the next request
    params,      \* list_all_pages: the params of the next request
    media_ids,   \* post_*_to_page: image_ids / video_ids / media_ids
    idx,         \* post_*_to_page: how many items of the batch the loop has consumed
    sent,        \* the HTTP requests issued by the call, in order
    got,         \* what each Graph API request of the call came back with, in order
    probed,      \* the HEAD requests get_mime_type issued during the call, in order,
                 \* each with what it did
    result       \* the value the finished call returned

vars == <<self, pc, call, all_pages, endpoint, params, media_ids, idx, sent, got, probed,
          result>>

(***************************************************************************)
(* Bounds of the model.                                                    *)
(***************************************************************************)
\* list_all_pages: the server stops handing out paging.next after this many responses
MaxPages == 3
\* post_images_to_page: the longest batch
MaxUrls == 3
\* post_videos_to_page: the longest batch
MaxVideos == 2
\* post_media_to_page: the longest batch
MaxMedia == 2

(***************************************************************************)
(* Python values.                                                          *)
(***************************************************************************)
EmptyDict == [k \in {} |-> k]
EmptyStr == ""

PyNone == [type |-> "NoneType"]
PyStr(s) == [type |-> "str", val |-> s]
PyDict(d) == [type |-> "dict", val |-> d]
PyList(l) == [type |-> "list", val |-> l]

\* d.get(k, default)
Get(d, k, default) == IF k \in DOMAIN d THEN d[k] ELSE default

\* d.get(k) of a key that holds a str: the str, or None
GetStr(d, k) == IF k \in DOMAIN d THEN PyStr(d[k]) ELSE PyNone

\* s.startswith(p)
StartsWith(s, p) == Len(s) >= Len(p) /\ SubSeq(s, 1, Len(p)) = p

\* bool(v) of an Optional[str]: None and "" are falsy
Truthy(v) == v # PyNone /\ v # PyStr(EmptyStr)

\* the dicts that hold key k with a value of Vs, or do not hold it
OptKey(k, Vs) == {EmptyDict} \cup {k :> v : v \in Vs}

\* the dicts made of one dict of A and one of B (their keys are disjoint)
Both(A, B) == {a @@ b : a \in A, b \in B}

(***************************************************************************)
(* The instance: FacebookAPI.__init__.                                     *)
(***************************************************************************)
VerifyTokens == {"T", "WRONG"}
Timeouts == {10}

Configs ==
    { [api_url      |-> "https://graph.example/v1/",
       app_secret   |-> "app_secret",
       app_id       |-> "app_id",
       page_id      |-> "page_id",
       access_token |-> "page_access_token",
       verify_token |-> v,
       fields       |-> "messages,feed",
       timeout      |-> t] : v \in VerifyTokens, t \in Timeouts }

(***************************************************************************)
(* The HTTP layer: what requests.request can do with one request.          *)
(*   ok                  a 2xx response; its content is empty or a JSON    *)
(*                       object                                            *)
(*   bad_json_request    a 2xx response whose content does not decode,     *)
(*                       where response.json() raises                      *)
(*                       requests.JSONDecodeError (a RequestException      *)
(*                       without a response; requests >= 2.27)             *)
(*   bad_json_value      the same, where response.json() raises a plain    *)
(*                       ValueError (older requests)                       *)
(*   timeout             requests.Timeout                                  *)
(*   connection          a RequestException that carries no response       *)
(*   http_error          a 4xx/5xx response: raise_for_status raises       *)
(*                       HTTPError(response=r), and bool(r) is r.ok, False *)
(*   too_many_redirects  TooManyRedirects(response=r) with r a 3xx         *)
(*                       response, for which bool(r) is True               *)
(***************************************************************************)
GraphError == [error |-> [message |-> "Invalid OAuth access token", code |-> 190]]

\* response.content: nothing, or one of the JSON objects `bodies`
Contents(bodies) ==
    {[kind |-> "empty"]} \cup {[kind |-> "json", json |-> b] : b \in bodies}

\* response.content that is no JSON (an HTML page, say)
Garbage == [kind |-> "garbage"]

HttpOutcomes(bodies) ==
    {[kind |-> "ok", content |-> c] : c \in Contents(bodies)}
        \cup {[kind |-> k] : k \in {"bad_json_request", "bad_json_value",
                                    "timeout", "connection"}}
        \cup {[kind |-> k, content |-> c] :
                 k \in {"http_error", "too_many_redirects"},
                 c \in Contents({GraphError}) \cup {Garbage}}

\* str(e) of the exception an outcome raises
ExcText(o) ==
    CASE o.kind = "bad_json_request"   -> "Expecting value"
      [] o.kind = "bad_json_value"     -> "Expecting value"
      [] o.kind = "connection"         -> "Connection refused"
      [] o.kind = "http_error"         -> "400 Client Error"
      [] o.kind = "too_many_redirects" -> "Exceeded 30 redirects."

\* bool(e.response): None is falsy, a Response is truthy iff response.ok
ResponseTruthy(o) == o.kind = "too_many_redirects"

\* the value a function returned, or the exception that left it
Return(v) == [raised |-> FALSE, value |-> v]
Raise(e) == [raised |-> TRUE, exc |-> e]

\* lines 64-67 and 70-78: the arguments of requests.request
IsAbsolute(ep) == StartsWith(ep, "http://") \/ StartsWith(ep, "https://")

HttpRequest(s, method, ep, prms, data, headers, json_body) ==
    [method  |-> method,
     url     |-> IF IsAbsolute(ep) THEN ep ELSE s.api_url \o ep,
     params  |-> prms,
     data    |-> data,
     json    |-> json_body,
     headers |-> headers,
     timeout |-> s.timeout]

\* lines 86-88: e.response.json() if e.response and e.response.content else None
error_details(o) ==
    IF "content" \in DOMAIN o /\ ResponseTruthy(o) /\ o.content.kind # "empty"
    THEN IF o.content.kind = "json"
         THEN Return(PyDict(o.content.json))
         ELSE Raise("Expecting value")
    ELSE Return(PyNone)

\* lines 69-92: the try block and its handlers
send_rest_request(s, o) ==
    CASE o.kind = "ok" ->
            Return(IF o.content.kind = "empty" THEN EmptyDict ELSE o.content.json)
      [] o.kind = "timeout" ->
            Return([error |-> "Timeout after " \o ToString(s.timeout) \o " seconds"])
      [] o.kind = "bad_json_value" ->
            Return([error |-> ExcText(o)])
      [] OTHER ->
            IF error_details(o).raised
            THEN error_details(o)
            ELSE Return([error |-> ExcText(o), details |-> error_details(o).value])

\* one call of send_rest_request as the caller sees it: what the HTTP layer did,
\* and what send_rest_request made of it
Exchange(s, o) == [outcome |-> o, ret |-> send_rest_request(s, o)]

\* an exception that leaves a method
PyRaised(e) == [type |-> "raised", exc |-> e]

\* except Exception as e: return {"ok": False, "error": str(e)}
Caught(e) == PyDict([ok |-> FALSE, error |-> e])

\* what a method that returns send_rest_request(...) returns
Returned(ret) == IF ret.raised THEN PyRaised(ret.exc) ELSE PyDict(ret.value)

(***************************************************************************)
(* list_all_pages (lines 213-235).                                         *)
(***************************************************************************)
Limits == {100}
DataLists == {<<>>, <<"p1">>, <<"p2", "p1">>}
NextUrls == {"https://graph.example/v1/me/accounts?after=A",
             "https://graph.example/v1/me/accounts?after=B"}
Pagings == OptKey("next", NextUrls \cup {EmptyStr})

\* the JSON objects the server answers me/accounts with
PageBodies ==
    Both(OptKey("data", DataLists), OptKey("paging", Pagings)) \cup {GraphError}

\* lines 226-228: paging.get("next") is there and truthy
HasNext(response) ==
    LET paging == Get(response, "paging", EmptyDict)
    IN  "next" \in DOMAIN paging /\ paging.next # EmptyStr

\* line 225 as it would be with the new records put in front (C1 tells the two apart)
ExtendPagesInFront(pages, response) == Get(response, "data", <<>>) \o pages

\* line 225
ExtendPages(pages, response) == pages \o Get(response, "data", <<>>)

\* line 224 as it would be if it returned what was accumulated (C2 tells the two apart)
ListPagesKeepsPartial(pages) == PyList(pages)

\* line 224
ListPagesOnError(pages) == PyList(<<>>)

\* line 219 as it would be without the access_token (C10 tells the two apart)
FirstParamsWithoutToken(s, limit) == [limit |-> limit]

\* line 219
FirstParams(s, limit) == [access_token |-> s.access_token, limit |-> limit]

\* lines 230-231: the next request
NextEndpoint(response) == response.paging.next
NextParams(response) == EmptyDict

\* lines 217-219
CallListAllPages ==
    /\ pc = "idle"
    /\ \E limit \in Limits :
          /\ call' = [op |-> "list_all_pages", limit |-> limit]
          /\ params' = FirstParams(self, limit)
    /\ pc' = "list_all_pages"
    /\ all_pages' = <<>>
    /\ endpoint' = "me/accounts"
    /\ sent' = <<>>
    /\ got' = <<>>
    /\ result' = PyNone
    /\ probed' = <<>>
    /\ UNCHANGED <<self, media_ids, idx>>

\* lines 221-235: one iteration of the while loop, and the return after it
ListPagesIteration ==
    /\ pc = "list_all_pages"
    /\ \E o \in HttpOutcomes({b \in PageBodies : HasNext(b) => Len(got) + 1 < MaxPages}) :
          LET x == Exchange(self, o)
              r == x.ret
          IN  /\ sent' = Append(sent, HttpRequest(self, "GET", endpoint, params,
                                                  EmptyDict, EmptyDict, EmptyDict))
              /\ got' = Append(got, x)
              /\ IF r.raised
                 THEN /\ result' = Caught(r.exc)
                      /\ pc' = "done"
                      /\ UNCHANGED <<all_pages, endpoint, params>>
                 ELSE IF "error" \in DOMAIN r.value
                 THEN /\ result' = ListPagesOnError(all_pages)
                      /\ pc' = "done"
                      /\ UNCHANGED <<all_pages, endpoint, params>>
                 ELSE /\ all_pages' = ExtendPages(all_pages, r.value)
                      /\ IF HasNext(r.value)
                         THEN /\ endpoint' = NextEndpoint(r.value)
                              /\ params' = NextParams(r.value)
                              /\ UNCHANGED <<pc, result>>
                         ELSE /\ result' = PyList(all_pages')
                              /\ pc' = "done"
                              /\ UNCHANGED <<endpoint, params>>
    /\ UNCHANGED <<self, call, media_ids, idx, probed>>

(***************************************************************************)
(* get_mime_type (lines 339-373).                                          *)
(***************************************************************************)
EndsWith(s, p) == Len(s) >= Len(p) /\ SubSeq(s, Len(s) - Len(p) + 1, Len(s)) = p

\* mimetypes.guess_type(file_path)[0]: the type of the extension, or None
guess_type(file_path) ==
    CASE EndsWith(file_path, ".png") -> PyStr("image/png")
      [] EndsWith(file_path, ".mp4") -> PyStr("video/mp4")
      [] EndsWith(file_path, ".pdf") -> PyStr("application/pdf")
      [] EndsWith(file_path, ".mp3") -> PyStr("audio/mpeg")
      [] EndsWith(file_path, ".zip") -> PyStr("application/zip")
      [] EndsWith(file_path, ".wav") -> PyStr("audio/x-wav")
      [] OTHER -> PyNone

\* what requests.head(url, allow_redirects=True) can do: a response, whose headers
\* hold a Content-Type or none, or a RequestException
ContentTypes == {"image/png", "video/mp4", "application/pdf", "text/html",
                 "text/plain; charset=utf-8"}
ProbeOutcomes ==
    {[kind |-> "response", headers |-> h] : h \in OptKey("Content-Type", ContentTypes)}
        \cup {[kind |-> "request_exception"]}

image_types == {"image/jpeg", "image/png", "image/gif", "image/webp"}
document_types == {"application/pdf", "text/plain"}
audio_types == {"audio/mpeg", "audio/wav"}
video_types == {"video/mp4", "video/quicktime"}

\* lines 364-373
classify(detected_mime_type) ==
    LET in(types) == detected_mime_type # PyNone /\ detected_mime_type.val \in types
    IN  CASE in(image_types)    -> [file_type |-> "image", mime |-> detected_mime_type]
          [] in(document_types) -> [file_type |-> "document", mime |-> detected_mime_type]
          [] in(audio_types)    -> [file_type |-> "audio", mime |-> detected_mime_type]
          [] in(video_types)    -> [file_type |-> "video", mime |-> detected_mime_type]
          [] OTHER              -> [file_type |-> "unknown", mime |-> detected_mime_type]

\* a HEAD request goes out for every non-empty url, whatever file_path is
probes_any_url(file_path, url) == Truthy(url)

\* lines 348-350: a HEAD request goes out
probes(file_path, url) == ~Truthy(file_path) /\ Truthy(url)

\* line 352: the HEAD request, and what it did
Probe(url, probe) ==
    [method |-> "HEAD", url |-> url, allow_redirects |-> TRUE, outcome |-> probe]

\* lines 346-373; probe is what the HEAD request does, if one goes out
get_mime_type(file_path, url, mime_type, probe) ==
    IF Truthy(file_path)
    THEN PyDict(classify(guess_type(file_path.val)))
    ELSE IF Truthy(url)
    THEN IF probe.kind = "request_exception"
         THEN PyNone
         ELSE PyDict(classify(GetStr(probe.headers, "Content-Type")))
    ELSE PyDict(classify(mime_type))

\* the arguments of a direct call: each is None, empty or a string
FilePaths ==
    {PyNone, PyStr(EmptyStr), PyStr("photo.png"), PyStr("clip.mp4"),
     PyStr("archive.zip"), PyStr("sound.wav"), PyStr("README")}
ProbeUrls == {PyNone, PyStr(EmptyStr), PyStr("https://cdn.example/a")}
MimeTypes ==
    {PyNone, PyStr("image/png"), PyStr("application/zip"), PyStr("audio/mpeg"),
     PyStr("text/plain"), PyStr("video/quicktime")}

\* get_mime_type(file_path, url, mime_type) called on its own
CallGetMimeType ==
    /\ pc = "idle"
    /\ \E file_path \in FilePaths, url \in ProbeUrls, mime_type \in MimeTypes :
          \E probe \in IF probes(file_path, url) THEN ProbeOutcomes
                       ELSE {[kind |-> "not_sent"]} :
             /\ call' = [op |-> "get_mime_type", file_path |-> file_path,
                         url |-> url, mime_type |-> mime_type]
             /\ probed' = IF probes(file_path, url)
                          THEN <<Probe(url.val, probe)>>
                          ELSE <<>>
             /\ result' = get_mime_type(file_path, url, mime_type, probe)
    /\ pc' = "done"
    /\ UNCHANGED <<self, all_pages, endpoint, params, media_ids, idx, sent, got>>

(***************************************************************************)
(* post_images_to_page (lines 274-304), post_videos_to_page (lines         *)
(* 306-337) and post_media_to_page (lines 375-420).                        *)
(***************************************************************************)
Urls == {"https://cdn.example/a", "https://cdn.example/b"}
MediaUrls == {"https://cdn.example/a"}
Captions == {"caption"}
Titles == {"title"}

SeqsUpTo(S, n) == UNION {[1..k -> S] : k \in 0..n}

\* the JSON objects the server answers an upload with
UploadBodies == {[id |-> "m1"], [id |-> "m2"], GraphError}
\* the JSON objects the server answers the feed post with
FeedBodies == {[id |-> "page_id_post1"]}

\* the ways a request of a batch goes in the model: the 2xx answers, and one of
\* each way send_rest_request has to end (the timeout envelope, the error envelope,
\* an exception)
BatchOutcomes(bodies) ==
    {o \in HttpOutcomes(bodies) :
        \/ o.kind \in {"ok", "timeout"}
        \/ o.kind = "http_error" /\ o.content.kind = "json"
        \/ o.kind = "too_many_redirects" /\ o.content.kind = "garbage"}

\* lines 280-285
photo_request(s, image_url) ==
    HttpRequest(s, "POST", s.page_id \o "/photos",
                [access_token |-> s.access_token, url |-> image_url, published |-> "false"],
                EmptyDict, EmptyDict, EmptyDict)

\* lines 313-318
video_request(s, title, video_url) ==
    HttpRequest(s, "POST", s.page_id \o "/videos",
                [access_token |-> s.access_token, title |-> title, file_url |-> video_url],
                EmptyDict, EmptyDict, EmptyDict)

\* lines 387-391
media_video_request(s, media_url) ==
    HttpRequest(s, "POST", s.page_id \o "/videos",
                [access_token |-> s.access_token, file_url |-> media_url],
                EmptyDict, EmptyDict, EmptyDict)

\* lines 293-301, 326-334, 409-417
feed_request(s, caption, ids) ==
    HttpRequest(s, "POST", s.page_id \o "/feed",
                [access_token |-> s.access_token],
                EmptyDict, EmptyDict,
                [message |-> caption,
                 attached_media |-> [i \in 1..Len(ids) |-> [media_fbid |-> ids[i]]]])

\* lines 287-288, 320-321, 403-404
collect(ids, response) ==
    IF "error" \notin DOMAIN response
    THEN Append(ids, GetStr(response, "id"))
    ELSE ids

\* lines 290-291, 323-324, 406-407
nothing_uploaded(op) ==
    CASE op = "post_images_to_page" -> PyDict([error |-> "Failed to upload any images"])
      [] op = "post_videos_to_page" -> PyDict([error |-> "Failed to upload any videos"])
      [] op = "post_media_to_page"  -> PyDict([error |-> "No valid media uploaded"])

\* line 278 (311, 380): the call starts with an empty list of ids
StartBatch(c) ==
    /\ pc = "idle"
    /\ call' = c
    /\ pc' = c.op
    /\ media_ids' = <<>>
    /\ idx' = 0
    /\ sent' = <<>>
    /\ got' = <<>>
    /\ probed' = <<>>
    /\ result' = PyNone
    /\ UNCHANGED <<self, all_pages, endpoint, params>>

CallPostImages ==
    /\ pc = "idle"
    /\ \E urls \in SeqsUpTo(Urls, MaxUrls), caption \in Captions :
           StartBatch([op |-> "post_images_to_page", image_urls |-> urls, caption |-> caption])

CallPostVideos ==
    /\ pc = "idle"
    /\ \E urls \in SeqsUpTo(Urls, MaxVideos), caption \in Captions, title \in Titles :
           StartBatch([op |-> "post_videos_to_page", title |-> title, caption |-> caption,
                       video_urls |-> urls])

CallPostMedia ==
    /\ pc = "idle"
    /\ \E media \in SeqsUpTo(OptKey("url", MediaUrls), MaxMedia), caption \in Captions :
           StartBatch([op |-> "post_media_to_page", caption |-> caption, media_urls |-> media])

\* one upload of a batch: the request goes out and the loop takes what comes back
Upload(req) ==
    \E o \in BatchOutcomes(UploadBodies) :
        LET x == Exchange(self, o)
        IN  /\ sent' = Append(sent, req)
            /\ got' = Append(got, x)
            /\ IF x.ret.raised
               THEN /\ result' = Caught(x.ret.exc)
                    /\ pc' = "done"
                    /\ UNCHANGED <<media_ids, idx>>
               ELSE /\ media_ids' = collect(media_ids, x.ret.value)
                    /\ idx' = idx + 1
                    /\ UNCHANGED <<pc, result>>

\* lines 279-288: one iteration of the for loop
ImagesIteration ==
    /\ pc = "post_images_to_page"
    /\ idx < Len(call.image_urls)
    /\ Upload(photo_request(self, call.image_urls[idx + 1]))
    /\ UNCHANGED <<self, call, all_pages, endpoint, params, probed>>

\* lines 312-321: one iteration of the for loop
VideosIteration ==
    /\ pc = "post_videos_to_page"
    /\ idx < Len(call.video_urls)
    /\ Upload(video_request(self, call.title, call.video_urls[idx + 1]))
    /\ UNCHANGED <<self, call, all_pages, endpoint, params, probed>>

\* lines 381-404: one iteration of the for loop
MediaIteration ==
    /\ pc = "post_media_to_page"
    /\ idx < Len(call.media_urls)
    /\ LET media_url == GetStr(call.media_urls[idx + 1], "url")
       IN  \E probe \in ProbeOutcomes :
              LET mime_info == get_mime_type(PyNone, media_url, PyNone, probe)
                  media_type == IF mime_info # PyNone THEN mime_info.val.file_type ELSE "None"
                  head == IF probes(PyNone, media_url)
                          THEN <<Probe(media_url.val, probe)>>
                          ELSE <<>>
              IN  IF media_type = "video"
                  THEN /\ Upload(media_video_request(self, media_url.val))
                       /\ probed' = probed \o head
                  ELSE IF media_type = "image"
                  THEN /\ Upload(photo_request(self, media_url.val))
                       /\ probed' = probed \o head
                  ELSE /\ idx' = idx + 1
                       /\ probed' = probed \o head
                       /\ UNCHANGED <<media_ids, sent, got, pc, result>>
    /\ UNCHANGED <<self, call, all_pages, endpoint, params>>

\* lines 290-304, 323-337, 406-420: after the loop
Aggregate ==
    /\ pc \in {"post_images_to_page", "post_videos_to_page", "post_media_to_page"}
    /\ idx = Len(IF pc = "post_images_to_page" THEN call.image_urls
                 ELSE IF pc = "post_videos_to_page" THEN call.video_urls
                 ELSE call.media_urls)
    /\ IF media_ids = <<>>
       THEN /\ result' = nothing_uploaded(pc)
            /\ UNCHANGED <<sent, got>>
       ELSE \E o \in BatchOutcomes(FeedBodies) :
               LET x == Exchange(self, o)
               IN  /\ sent' = Append(sent, feed_request(self, call.caption, media_ids))
                   /\ got' = Append(got, x)
                   /\ result' = IF x.ret.raised THEN Caught(x.ret.exc)
                                ELSE PyDict(x.ret.value)
    /\ pc' = "done"
    /\ UNCHANGED <<self, call, all_pages, endpoint, params, media_ids, idx, probed>>

(***************************************************************************)
(* The operations that are one request: lines 110-121, 169-211, 237-272    *)
(* and 422-458. The arguments are fixed strings: no operation looks at     *)
(* them.                                                                   *)
(***************************************************************************)
SimpleOps ==
    {"register_session", "send_text_message", "send_media", "get_user_info",
     "get_page_details", "post_message_to_page", "get_page_posts", "get_single_post",
     "comment_on_post", "get_post_comments", "reply_to_comment",
     "reply_to_comment_with_attachment", "update_comment", "like_comment",
     "get_reactions"}

JsonHeaders == [Content_Type |-> "application/json"]
PageToken(s) == [access_token |-> s.access_token]

\* line 113: the app-level credential
AppToken(s) == [access_token |-> s.app_id \o "|" \o s.app_secret]

\* the request each operation builds
simple_request(s, op) ==
    CASE op = "register_session" ->
            HttpRequest(s, "POST", s.app_id \o "/subscriptions", AppToken(s),
                        EmptyDict, EmptyDict,
                        [object |-> "page", callback_url |-> "https://agent.example/webhook",
                         fields |-> s.fields, verify_token |-> s.verify_token,
                         include_values |-> "true"])
      [] op = "send_text_message" ->
            HttpRequest(s, "POST", s.page_id \o "/messages", PageToken(s),
                        EmptyDict, JsonHeaders,
                        [recipient |-> [id |-> "recipient_id"], messaging_type |-> "RESPONSE",
                         message |-> [text |-> "message"]])
      [] op = "send_media" ->
            HttpRequest(s, "POST", s.page_id \o "/messages", PageToken(s),
                        EmptyDict, JsonHeaders,
                        [recipient |-> [id |-> "recipient_id"], messaging_type |-> "RESPONSE",
                         message |-> [attachment |->
                            [type |-> "image",
                             payload |-> [url |-> "https://cdn.example/a",
                                          is_reusable |-> TRUE]]]])
      [] op = "get_user_info" ->
            HttpRequest(s, "GET", "me", [fields |-> "id,name"] @@ PageToken(s),
                        EmptyDict, EmptyDict, EmptyDict)
      [] op = "get_page_details" ->
            HttpRequest(s, "GET", s.page_id,
                        [fields |-> "id,name,about,fan_count,access_token"] @@ PageToken(s),
                        EmptyDict, EmptyDict, EmptyDict)
      [] op = "post_message_to_page" ->
            HttpRequest(s, "POST", s.page_id \o "/feed", PageToken(s),
                        EmptyDict, JsonHeaders, [message |-> "message"])
      [] op = "get_page_posts" ->
            HttpRequest(s, "GET", s.page_id \o "/posts", PageToken(s) @@ [limit |-> 10],
                        EmptyDict, EmptyDict, EmptyDict)
      [] op = "get_single_post" ->
            HttpRequest(s, "GET", "post_id", PageToken(s), EmptyDict, EmptyDict, EmptyDict)
      [] op = "comment_on_post" ->
            HttpRequest(s, "POST", "post_id" \o "/comments",
                        [message |-> "message"] @@ PageToken(s),
                        EmptyDict, EmptyDict, EmptyDict)
      [] op = "get_post_comments" ->
            HttpRequest(s, "GET", "post_id" \o "/comments", PageToken(s) @@ [limit |-> 10],
                        EmptyDict, EmptyDict, EmptyDict)
      [] op = "reply_to_comment" ->
            HttpRequest(s, "POST", "comment_id" \o "/comments",
                        [message |-> "message"] @@ PageToken(s),
                        EmptyDict, EmptyDict, EmptyDict)
      [] op = "reply_to_comment_with_attachment" ->
            HttpRequest(s, "POST", "comment_id" \o "/comments", EmptyDict,
                        [attachment_url |-> "https://cdn.example/a"] @@ PageToken(s),
                        EmptyDict, EmptyDict)
      [] op = "update_comment" ->
            HttpRequest(s, "POST", "comment_id", EmptyDict,
                        [message |-> "message"] @@ PageToken(s),
                        EmptyDict, EmptyDict)
      [] op = "like_comment" ->
            HttpRequest(s, "POST", "comment_id" \o "/likes", PageToken(s),
                        EmptyDict, EmptyDict, EmptyDict)
      [] op = "get_reactions" ->
            HttpRequest(s, "GET", "post_id" \o "/reactions", PageToken(s),
                        EmptyDict, EmptyDict, EmptyDict)

\* the JSON objects the server answers these with
SimpleBodies == {[id |-> "object_id"], GraphError}

\* a call that ends within one step: nothing of a batch or a listing is in progress
OneStep(c, requests, exchanges, res) ==
    /\ pc = "idle"
    /\ call' = c
    /\ sent' = requests
    /\ got' = exchanges
    /\ result' = res
    /\ pc' = "done"
    /\ probed' = <<>>
    /\ UNCHANGED <<self, all_pages, endpoint, params, media_ids, idx>>

\* return self.send_rest_request(...)
CallSimple ==
    /\ pc = "idle"
    /\ \E op \in SimpleOps, o \in HttpOutcomes(SimpleBodies) :
           LET x == Exchange(self, o)
           IN  OneStep([op |-> op], <<simple_request(self, op)>>, <<x>>, Returned(x.ret))

\* lines 488-495
share_facebook_post(ret) ==
    IF ret.raised
    THEN PyRaised(ret.exc)
    ELSE IF "permalink_url" \in DOMAIN ret.value
    THEN PyDict([status |-> "success", data |-> ret.value.permalink_url])
    ELSE PyDict([status |-> "error",
                 message |-> IF "error" \in DOMAIN ret.value
                             THEN ret.value.error ELSE "Unknown error"])

CallShareFacebookPost ==
    /\ pc = "idle"
    /\ \E o \in HttpOutcomes({[permalink_url |-> "https://facebook.example/post_id"]}) :
           LET x == Exchange(self, o)
           IN  OneStep([op |-> "share_facebook_post", post_id |-> "post_id"],
                       <<HttpRequest(self, "GET", "post_id",
                                     [fields |-> "permalink_url"] @@ PageToken(self),
                                     EmptyDict, EmptyDict, EmptyDict)>>,
                       <<x>>, share_facebook_post(x.ret))

(***************************************************************************)
(* parse_verification_request (lines 94-108).                              *)
(***************************************************************************)
HubModes == {"subscribe", "unsubscribe"}
HubTokens == {"T", "WRONG"}
HubChallenges == {"123", ""}

\* the requests the host hands over: the query parameters, or no dict at all
VerificationRequests ==
    {PyNone} \cup
    {PyDict(m @@ t @@ c) : m \in OptKey("hub.mode", HubModes),
                           t \in OptKey("hub.verify_token", HubTokens),
                           c \in OptKey("hub.challenge", HubChallenges)}

\* line 101 as it would be without the test of hub.mode (C9 tells the two apart)
token_valid_any_mode(s, hub_mode, hub_verify_token) ==
    hub_verify_token = PyStr(s.verify_token)

\* line 101
token_valid(s, hub_mode, hub_verify_token) ==
    hub_verify_token = PyStr(s.verify_token) /\ hub_mode = PyStr("subscribe")

\* lines 96-108
parse_verification_request(s, request) ==
    IF request = PyNone
    THEN PyDict([error |-> "'NoneType' object has no attribute 'get'"])
    ELSE LET hub_mode == GetStr(request.val, "hub.mode")
             hub_verify_token == GetStr(request.val, "hub.verify_token")
             hub_challenge == GetStr(request.val, "hub.challenge")
         IN  IF token_valid(s, hub_mode, hub_verify_token)
             THEN IF hub_challenge # PyNone THEN hub_challenge ELSE PyStr("")
             ELSE PyDict([message |-> "Invalid token or mode", code |-> 403])

CallParseVerificationRequest ==
    /\ pc = "idle"
    /\ \E request \in VerificationRequests :
           OneStep([op |-> "parse_verification_request", request |-> request],
                   <<>>, <<>>, parse_verification_request(self, request))

(***************************************************************************)
(* parse_inbound_message (lines 123-167).                                  *)
(***************************************************************************)
Items == {"comment", "reaction"}
Texts == {"", "hello"}
Attachments == {<<>>, <<[type |-> "image", payload |-> [url |-> "https://cdn.example/a"]]>>}

Froms == Both(OptKey("id", {"user_1"}), OptKey("name", {"Ann"}))
Values ==
    Both(Both(OptKey("from", Froms), OptKey("item", Items)),
         Both(OptKey("message", Texts), OptKey("reaction_type", {"like"})))
Changes == {<<>>} \cup {<<c>> : c \in OptKey("value", Values)}

Senders == OptKey("id", {"user_2"})
Messages == Both(OptKey("text", Texts), OptKey("attachments", Attachments))
Messagings ==
    {<<>>} \cup {<<m>> : m \in Both(OptKey("sender", Senders), OptKey("message", Messages))}

Entries ==
    Both(OptKey("id", {"page_1"}),
         Both(OptKey("changes", Changes), OptKey("messaging", Messagings)))

\* the webhook bodies the host hands over
WebhookBodies ==
    {[object |-> "page"], [object |-> "page", entry |-> <<>>]}
        \cup {[object |-> "page", entry |-> <<e>>] : e \in Entries}

\* line 143 as it would be if an empty message counted as a message (C8 tells the two
\* apart)
OrIfPresent(a, b) == IF a # PyNone THEN a ELSE b

\* line 143: a or b, of two Optional[str]
Or(a, b) == IF Truthy(a) THEN a ELSE b

KeyError(k) == Raise("'" \o k \o "'")
IndexError == Raise("list index out of range")

\* lines 139-143: what the branch assigns, or the exception it raises
parse_changes(entry) ==
    IF Len(entry.changes) = 0 THEN IndexError
    ELSE IF "value" \notin DOMAIN entry.changes[1] THEN KeyError("value")
    ELSE LET change == entry.changes[1].value
         IN  IF "from" \notin DOMAIN change THEN KeyError("from")
             ELSE IF "id" \notin DOMAIN change.from THEN KeyError("id")
             ELSE IF "name" \notin DOMAIN change.from THEN KeyError("name")
             ELSE IF "item" \notin DOMAIN change THEN KeyError("item")
             ELSE Return([sender_id    |-> change.from.id,
                          sender_name  |-> change.from.name,
                          message_type |-> change.item,
                          message      |-> Or(GetStr(change, "message"),
                                              GetStr(change, "reaction_type")),
                          attachments  |-> <<>>])

\* line 149 as it would be if the attachments were dropped (C7 tells the two apart)
no_attachments(message) == <<>>

\* line 149
message_attachments(message) == Get(message, "attachments", <<>>)

\* lines 145-149: what the branch assigns, or the exception it raises
parse_messaging(entry) ==
    IF Len(entry.messaging) = 0 THEN IndexError
    ELSE LET messaging == entry.messaging[1]
         IN  IF "sender" \notin DOMAIN messaging THEN KeyError("sender")
             ELSE IF "id" \notin DOMAIN messaging.sender THEN KeyError("id")
             ELSE IF "message" \notin DOMAIN messaging THEN KeyError("message")
             ELSE Return([sender_id    |-> messaging.sender.id,
                          sender_name  |-> "",
                          message_type |-> "message",
                          message      |-> GetStr(messaging.message, "text"),
                          attachments  |-> message_attachments(messaging.message)])

\* lines 130-136: the values neither branch assigns
parse_neither(entry) ==
    Return([sender_id |-> "", sender_name |-> "", message_type |-> "",
            message |-> PyStr(""), attachments |-> <<>>])

\* lines 138-149
parse_entry(entry) ==
    IF "changes" \in DOMAIN entry THEN parse_changes(entry)
    ELSE IF "messaging" \in DOMAIN entry THEN parse_messaging(entry)
    ELSE parse_neither(entry)

\* lines 126-167
parse_inbound_message(request) ==
    LET failed(e) == PyDict([ok |-> FALSE, error |-> e])
    IN  IF "entry" \notin DOMAIN request THEN failed(KeyError("entry").exc)
        ELSE IF Len(request.entry) = 0 THEN failed(IndexError.exc)
        ELSE LET entry == request.entry[1]
             IN  IF "id" \notin DOMAIN entry THEN failed(KeyError("id").exc)
                 ELSE IF parse_entry(entry).raised THEN failed(parse_entry(entry).exc)
                 ELSE LET assigned == parse_entry(entry).value
                      IN  PyDict([sender_name       |-> assigned.sender_name,
                                  sender_id         |-> assigned.sender_id,
                                  page_id           |-> entry.id,
                                  message_type      |-> assigned.message_type,
                                  message           |-> assigned.message,
                                  attachments       |-> assigned.attachments,
                                  caption           |-> "",
                                  data              |-> request,
                                  parent_message_id |-> ""])

CallParseInboundMessage ==
    /\ pc = "idle"
    /\ \E request \in WebhookBodies :
           OneStep([op |-> "parse_inbound_message", request |-> request],
                   <<>>, <<>>, parse_inbound_message(request))

(***************************************************************************)
(* The caller takes the result; the instance is ready for the next call.   *)
(***************************************************************************)
\* no call is in progress and nothing of the last one is left
Idle ==
    /\ pc = "idle"
    /\ call = [op |-> "none"]
    /\ all_pages = <<>>
    /\ endpoint = EmptyStr
    /\ params = EmptyDict
    /\ media_ids = <<>>
    /\ idx = 0
    /\ sent = <<>>
    /\ got = <<>>
    /\ probed = <<>>
    /\ result = PyNone

Finish ==
    /\ pc = "done"
    /\ pc' = "idle"
    /\ call' = [op |-> "none"]
    /\ all_pages' = <<>>
    /\ endpoint' = EmptyStr
    /\ params' = EmptyDict
    /\ media_ids' = <<>>
    /\ idx' = 0
    /\ sent' = <<>>
    /\ got' = <<>>
    /\ probed' = <<>>
    /\ result' = PyNone
    /\ UNCHANGED self

Init ==
    /\ self \in Configs
    /\ Idle

Next ==
    \/ CallSimple
    \/ CallShareFacebookPost
    \/ CallParseVerificationRequest
    \/ CallParseInboundMessage
    \/ CallListAllPages
    \/ ListPagesIteration
    \/ CallPostImages
    \/ CallPostVideos
    \/ CallPostMedia
    \/ CallGetMimeType
    \/ ImagesIteration
    \/ VideosIteration
    \/ MediaIteration
    \/ Aggregate
    \/ Finish

Spec == Init /\ [][Next]_vars

(***************************************************************************)
(* Properties.                                                             *)
(***************************************************************************)
Done(op) == pc = "done" /\ call.op = op

\* a request of the call came back as a response without an 'error' key
NonError(x) == ~x.ret.raised /\ "error" \notin DOMAIN x.ret.value

\* a request of the call came back as a response with an 'error' key
IsError(x) == ~x.ret.raised /\ "error" \in DOMAIN x.ret.value

\* a response's paging.next; "" when it has none
NextUrlOf(v) ==
    IF "paging" \in DOMAIN v /\ "next" \in DOMAIN v.paging THEN v.paging.next ELSE ""

\* the data lists of the responses, one after the other
RECURSIVE AllData(_)
AllData(xs) ==
    IF Len(xs) = 0 THEN <<>>
    ELSE (IF "data" \in DOMAIN Head(xs).ret.value THEN Head(xs).ret.value.data ELSE <<>>)
             \o AllData(Tail(xs))

\* C1: while every response of list_all_pages is a non-error response, the requests
\* are GETs, the first to me/accounts and each later one to the paging.next URL of
\* the response before it; the call goes on exactly while the last response has a
\* paging.next (an empty next URL counts as none) and ends at the first that has
\* none, returning the data lists of all the responses, concatenated in the order
\* they were fetched.
C1_ListAllPagesConcatenates ==
    (call.op = "list_all_pages" /\ \A i \in 1..Len(got) : NonError(got[i])) =>
        /\ Len(sent) = Len(got)
        /\ \A i \in 1..Len(sent) :
              /\ sent[i].method = "GET"
              /\ sent[i].url = IF i = 1 THEN self.api_url \o "me/accounts"
                               ELSE NextUrlOf(got[i - 1].ret.value)
        /\ \A i \in 1..(Len(got) - 1) : NextUrlOf(got[i].ret.value) # ""
        /\ pc = "done" <=> (Len(got) > 0 /\ NextUrlOf(got[Len(got)].ret.value) = "")
        /\ pc = "done" => result.type = "list" /\ result.val = AllData(got)

C1_Witness ==
    /\ Done("list_all_pages")
    /\ \A i \in 1..Len(got) : NonError(got[i])
    /\ Len(got) = 3
    /\ Len(AllData(SubSeq(got, 1, 1))) = 2
    /\ Len(result.val) >= 4

\* C2: the response that holds an 'error' key is the last one of the call: the call
\* has ended with it, no request follows it, and the result is the empty list
\* whatever was accumulated before; a list that list_all_pages returns is empty or
\* the complete concatenation of an error-free run, never a part of it.
C2_ListAllPagesFailsFast ==
    call.op = "list_all_pages" =>
        /\ \A i \in 1..Len(got) :
              IsError(got[i]) =>
                  /\ i = Len(got)
                  /\ Len(sent) = i
                  /\ pc = "done"
                  /\ result.type = "list" /\ result.val = <<>>
        /\ (pc = "done" /\ result.type = "list" /\ result.val # <<>>) =>
              /\ \A i \in 1..Len(got) : NonError(got[i])
              /\ NextUrlOf(got[Len(got)].ret.value) = ""
              /\ result.val = AllData(got)

C2_Witness ==
    /\ Done("list_all_pages")
    /\ Len(got) = 3
    /\ IsError(got[3])
    /\ Len(AllData(SubSeq(got, 1, 2))) >= 2
    /\ result = PyList(<<>>)

BatchOps == {"post_images_to_page", "post_videos_to_page", "post_media_to_page"}

FeedUrl == self.api_url \o self.page_id \o "/feed"
PhotosUrl == self.api_url \o self.page_id \o "/photos"

\* the i-th request of the call was an upload and came back without an 'error' key
Uploaded(i) == sent[i].url # FeedUrl /\ NonError(got[i])

\* the ids of the uploads that succeeded, in the order they succeeded
RECURSIVE UploadedIds(_)
UploadedIds(n) ==
    IF n = 0 THEN <<>>
    ELSE UploadedIds(n - 1) \o
            (IF Uploaded(n)
             THEN <<IF "id" \in DOMAIN got[n].ret.value
                    THEN PyStr(got[n].ret.value.id) ELSE PyNone>>
             ELSE <<>>)

\* C3: when post_images_to_page has ended, it has issued one upload per URL, in
\* input order, and, if at least one upload came back without an 'error' key, exactly
\* one feed post after them, whose attached_media are the ids of the successful
\* uploads in the order they succeeded.
C3_ImagesPostAttachesSuccesses ==
    Done("post_images_to_page") =>
        LET n == Len(call.image_urls)
        IN  /\ Len(sent) >= n
            /\ \A i \in 1..n :
                  /\ sent[i].method = "POST"
                  /\ sent[i].url = PhotosUrl
                  /\ sent[i].params.url = call.image_urls[i]
            /\ UploadedIds(n) # <<>> =>
                  /\ Len(sent) = n + 1
                  /\ sent[n + 1].url = FeedUrl
                  /\ sent[n + 1].json.attached_media
                        = [i \in 1..Len(UploadedIds(n)) |-> [media_fbid |-> UploadedIds(n)[i]]]

\* C4: when a batch call has ended and none of its uploads succeeded, the result is
\* the call's own error message and no request went to {page_id}/feed.
C4_NothingUploadedIsAnError ==
    (pc = "done" /\ call.op \in BatchOps /\ \A i \in 1..Len(sent) : ~Uploaded(i)) =>
        /\ result.type = "dict"
        /\ DOMAIN result.val = {"error"}
        /\ result.val.error =
              CASE call.op = "post_images_to_page" -> "Failed to upload any images"
                [] call.op = "post_videos_to_page" -> "Failed to upload any videos"
                [] call.op = "post_media_to_page"  -> "No valid media uploaded"
        /\ \A i \in 1..Len(sent) : sent[i].url # FeedUrl

\* C5: send_rest_request never raises: it returns the decoded JSON body ({} for an
\* empty body) or a dict with an 'error' key, and on a timeout exactly
\* {"error": "Timeout after {timeout} seconds"}.
C5_SendRestRequestNeverRaises ==
    \A i \in 1..Len(got) :
        LET o == got[i].outcome
            ret == got[i].ret
        IN  /\ ~ret.raised
            /\ IF o.kind = "ok"
               THEN ret.value = (IF o.content.kind = "empty" THEN EmptyDict
                                 ELSE o.content.json)
               ELSE "error" \in DOMAIN ret.value
            /\ o.kind = "timeout" =>
                  /\ DOMAIN ret.value = {"error"}
                  /\ ret.value.error = "Timeout after " \o ToString(self.timeout) \o " seconds"

\* the first entry of the webhook body the call was given, when it has one
HasEntry == "entry" \in DOMAIN call.request /\ Len(call.request.entry) > 0
Entry == call.request.entry[1]

\* the call returned the error envelope {"ok": False, "error": ...}
ParseFailed == result.type = "dict" /\ "ok" \in DOMAIN result.val /\ result.val.ok = FALSE

\* the call returned a normalized message record
Parsed == result.type = "dict" /\ "ok" \notin DOMAIN result.val

\* C6: a body whose entry[0] holds neither 'changes' nor 'messaging' gets the error
\* envelope with ok == false.
C6_NeitherShapeIsAnError ==
    (Done("parse_inbound_message") /\ HasEntry
        /\ "changes" \notin DOMAIN Entry /\ "messaging" \notin DOMAIN Entry) => ParseFailed

\* messaging[0].message.attachments of the entry, the empty sequence without it
SourceAttachments ==
    IF /\ Len(Entry.messaging) > 0
       /\ "message" \in DOMAIN Entry.messaging[1]
       /\ "attachments" \in DOMAIN Entry.messaging[1].message
    THEN Entry.messaging[1].message.attachments
    ELSE <<>>

MessagingRecord ==
    /\ Parsed
    /\ result.val.message_type = "message"
    /\ result.val.attachments = SourceAttachments

\* C7 as stated: every body whose entry[0] holds 'messaging' gets a record with
\* message_type "message" and the source attachments.
C7_AnyMessagingEntry ==
    (Done("parse_inbound_message") /\ HasEntry /\ "messaging" \in DOMAIN Entry) =>
        MessagingRecord

\* entry[0] is a Messenger event the parser reads to the end: it has an id and no
\* 'changes', and messaging[0] has sender.id and message
WellFormedMessaging ==
    /\ HasEntry
    /\ "id" \in DOMAIN Entry
    /\ "changes" \notin DOMAIN Entry
    /\ "messaging" \in DOMAIN Entry
    /\ Len(Entry.messaging) > 0
    /\ "sender" \in DOMAIN Entry.messaging[1]
    /\ "id" \in DOMAIN Entry.messaging[1].sender
    /\ "message" \in DOMAIN Entry.messaging[1]

\* C7, amended: every body whose entry[0] has an id, no 'changes' key, and a
\* 'messaging' list whose first element has sender.id and message, gets a record
\* with message_type "message" and attachments equal to messaging[0].message.attachments
\* (the empty sequence if that key is absent).
C7_WellFormedMessagingEntry ==
    (Done("parse_inbound_message") /\ WellFormedMessaging) => MessagingRecord

C7_Witness ==
    /\ Done("parse_inbound_message")
    /\ WellFormedMessaging
    /\ SourceAttachments # <<>>
    /\ Parsed
    /\ result.val.attachments # <<>>

\* entry[0] holds 'changes' whose first value has a from with id and name
ChangesWithFrom ==
    /\ HasEntry
    /\ "changes" \in DOMAIN Entry
    /\ Len(Entry.changes) > 0
    /\ "value" \in DOMAIN Entry.changes[1]
    /\ "from" \in DOMAIN Entry.changes[1].value
    /\ {"id", "name"} \subseteq DOMAIN Entry.changes[1].value.from

Value == Entry.changes[1].value

\* value.message if present and non-empty, else value.reaction_type (None without it)
SourceMessage ==
    IF "message" \in DOMAIN Value /\ Value.message # ""
    THEN PyStr(Value.message)
    ELSE IF "reaction_type" \in DOMAIN Value THEN PyStr(Value.reaction_type) ELSE PyNone

ChangesRecord ==
    /\ Parsed
    /\ result.val.sender_id = Value.from.id
    /\ result.val.sender_name = Value.from.name
    /\ "item" \in DOMAIN Value /\ result.val.message_type = Value.item
    /\ result.val.message = SourceMessage

\* C8 as stated: every body whose entry[0] holds 'changes' with a well-formed
\* value.from gets a record with sender_id and sender_name from value.from,
\* message_type value["item"] and message value.message or value.reaction_type.
C8_AnyChangesEntryWithFrom ==
    (Done("parse_inbound_message") /\ ChangesWithFrom) => ChangesRecord

\* C8, amended: every body whose entry[0] has an id and holds 'changes' whose first
\* value has a well-formed from (id and name) and an item, gets a record with
\* sender_id and sender_name from value.from, message_type value["item"] and message
\* value.message if present and non-empty, else value.reaction_type.
C8_WellFormedChangesEntry ==
    (Done("parse_inbound_message") /\ ChangesWithFrom
        /\ "id" \in DOMAIN Entry /\ "item" \in DOMAIN Value) => ChangesRecord

C8_Witness ==
    /\ Done("parse_inbound_message")
    /\ ChangesWithFrom
    /\ "id" \in DOMAIN Entry /\ "item" \in DOMAIN Value
    /\ "message" \in DOMAIN Value /\ Value.message = ""
    /\ "reaction_type" \in DOMAIN Value
    /\ Parsed
    /\ result.val.message = PyStr("like")

\* C9: parse_verification_request never raises; for a request that is a dict it
\* returns hub.challenge ("" without one) if hub.mode is "subscribe" and
\* hub.verify_token is the configured verify_token, and otherwise exactly
\* {"message": "Invalid token or mode", "code": 403}.
C9_ChallengeIffSubscribeAndToken ==
    Done("parse_verification_request") =>
        /\ result.type # "raised"
        /\ call.request # PyNone =>
              LET q == call.request.val
                  accepted == /\ "hub.mode" \in DOMAIN q /\ q["hub.mode"] = "subscribe"
                              /\ "hub.verify_token" \in DOMAIN q
                              /\ q["hub.verify_token"] = self.verify_token
              IN  IF accepted
                  THEN /\ result.type = "str"
                       /\ result.val = IF "hub.challenge" \in DOMAIN q
                                       THEN q["hub.challenge"] ELSE ""
                  ELSE /\ result.type = "dict"
                       /\ DOMAIN result.val = {"message", "code"}
                       /\ result.val.message = "Invalid token or mode"
                       /\ result.val.code = 403

C9_Witness ==
    /\ Done("parse_verification_request")
    /\ call.request # PyNone
    /\ "hub.challenge" \in DOMAIN call.request.val
    /\ result = PyStr("123")

\* the dict holds the credential c as its access_token
Holds(d, c) == "access_token" \in DOMAIN d /\ d.access_token = c

PageCredential(req) ==
    Holds(req.params, self.access_token) \/ Holds(req.data, self.access_token)
AppCredential(req) ==
    \/ Holds(req.params, self.app_id \o "|" \o self.app_secret)
    \/ Holds(req.data, self.app_id \o "|" \o self.app_secret)

\* the request carries one of the two credentials, the app-level one only in
\* register_session
Credentialed(req) ==
    /\ PageCredential(req) \/ AppCredential(req)
    /\ ~(PageCredential(req) /\ AppCredential(req))
    /\ AppCredential(req) => call.op = "register_session"

\* C10 as stated: every request to the Graph API carries the page access_token or
\* app_id|app_secret as a request parameter or body field.
C10_EveryRequestCredentialed ==
    \A i \in 1..Len(sent) : Credentialed(sent[i])

\* C10, amended: every request the client builds from its own endpoint (the only
\* request of a single-request operation, the first request of list_all_pages, each
\* upload and each feed post of a batch) carries the page access_token or
\* app_id|app_secret as a request parameter or body field, the app-level credential
\* only in register_session and never together with the page token; a follow-up
\* request of list_all_pages goes to the paging.next URL of the response before it with
\* no params and no body, so it carries a credential only if that URL embeds one.
C10_OwnRequestsCredentialed ==
    \A i \in 1..Len(sent) :
        IF call.op = "list_all_pages" /\ i > 1
        THEN /\ sent[i].url = NextUrlOf(got[i - 1].ret.value)
             /\ DOMAIN sent[i].params = {}
             /\ DOMAIN sent[i].data = {}
             /\ DOMAIN sent[i].json = {}
        ELSE Credentialed(sent[i])

C10_Witness ==
    /\ call.op = "list_all_pages"
    /\ Len(sent) = 3
    /\ Credentialed(sent[1])
    /\ ~Credentialed(sent[2])

\* the outcome is an HTTP response outside 2xx: a 4xx/5xx that raise_for_status
\* rejects, or the 3xx response a redirect loop ends on
NonTwoXX(o) == o.kind \in {"http_error", "too_many_redirects"}

\* C11: when send_rest_request receives a non-2xx response whose body is non-empty
\* JSON it returns {"error": <message>, "details": <the parsed body>}; details is None
\* only when the exception carries no response or the response body is empty.
C11_DetailsAreTheErrorBody ==
    \A i \in 1..Len(got) :
        LET o == got[i].outcome
            ret == got[i].ret
        IN  /\ (NonTwoXX(o) /\ o.content.kind = "json") =>
                  /\ ~ret.raised
                  /\ DOMAIN ret.value = {"error", "details"}
                  /\ ret.value.error = ExcText(o)
                  /\ ret.value.details = PyDict(o.content.json)
            /\ (~ret.raised /\ "details" \in DOMAIN ret.value
                    /\ ret.value.details = PyNone) =>
                  \/ "content" \notin DOMAIN o
                  \/ o.content.kind = "empty"

\* an optional string argument that is None or ""
Empty(v) == v = PyNone \/ v = PyStr(EmptyStr)

\* the HEAD request of the call raised a RequestException
ProbeRaised == probed # <<>> /\ probed[1].outcome.kind = "request_exception"

\* the type the call has to classify: of file_path if there is one, else of the
\* url if there is one, else mime_type
Detected ==
    IF ~Empty(call.file_path) THEN guess_type(call.file_path.val)
    ELSE IF ~Empty(call.url) THEN GetStr(probed[1].outcome.headers, "Content-Type")
    ELSE call.mime_type

\* the detected type is a string of the list
Listed(types) == Detected # PyNone /\ Detected.val \in types

\* C12: get_mime_type takes its source by the priority file_path > url > mime_type: a
\* HEAD request goes out if and only if file_path is empty and url is not, and
\* mime_type is used only when both are empty; the detected type is classified as
\* image, document, audio or video by the fixed lists and as unknown otherwise
\* (image/png is an image, application/zip is unknown); the result is None only when
\* the HEAD request raised a RequestException.
C12_GetMimeTypePriorityAndClasses ==
    Done("get_mime_type") =>
        /\ Len(probed) = (IF Empty(call.file_path) /\ ~Empty(call.url) THEN 1 ELSE 0)
        /\ \A i \in 1..Len(probed) :
              /\ probed[i].method = "HEAD"
              /\ probed[i].url = call.url.val
        /\ IF ProbeRaised
           THEN result = PyNone
           ELSE /\ result.type = "dict"
                /\ DOMAIN result.val = {"file_type", "mime"}
                /\ result.val.mime = Detected
                /\ result.val.file_type = "image" <=> Listed(image_types)
                /\ result.val.file_type = "document" <=> Listed(document_types)
                /\ result.val.file_type = "audio" <=> Listed(audio_types)
                /\ result.val.file_type = "video" <=> Listed(video_types)
                /\ result.val.file_type = "unknown" <=>
                      ~Listed(image_types \cup document_types
                                  \cup audio_types \cup video_types)
        /\ (Empty(call.file_path) /\ Empty(call.url)) =>
              /\ call.mime_type = PyStr("image/png") =>
                    result = PyDict([file_type |-> "image", mime |-> PyStr("image/png")])
              /\ call.mime_type = PyStr("application/zip") =>
                    result = PyDict([file_type |-> "unknown",
                                     mime |-> PyStr("application/zip")])

\* a call with an empty file_path, a url and a mime_type: the HEAD request goes out
\* and its Content-Type, not mime_type, is classified
C12_Witness ==
    /\ Done("get_mime_type")
    /\ call.file_path = PyStr(EmptyStr)
    /\ call.url = PyStr("https://cdn.example/a")
    /\ call.mime_type = PyStr("application/zip")
    /\ Len(probed) = 1
    /\ ~ProbeRaised
    /\ result = PyDict([file_type |-> "image", mime |-> PyStr("image/png")])

====
